---- MODULE Spec2Model ----
(***************************************************************************)
(* Model of sort_scans.py: a sequential pipeline that downloads each PDF   *)
(* of a Drive folder, extracts its text by OCR, asks a language model for  *)
(* a "SENDER - TOPIC" line, sanitizes it and renames the file.             *)
(*                                                                         *)
(* Python strings are sequences of one-character strings; the newline is   *)
(* written "NL".  An optional string (str or None) is a record             *)
(* [none, s]: None is [none |-> TRUE, s |-> <<>>].                         *)
(***************************************************************************)
EXTENDS Integers, Sequences, FiniteSets, TLC

(* ------------------------------ bounds -------------------------------- *)
\* longest listing returned by files().list
NumDocs == 2
\* most pages in a downloaded PDF
MaxPages == 2
\* longest free tail of a generated topic / text (after the padding run)
MaxTail == 2

(* ------------------------- program constants -------------------------- *)
MAX_FILENAME_LENGTH == 150
MAX_OCR_TEXT_FOR_LLM == 4000

(* ------------------------- optional strings --------------------------- *)
None == [none |-> TRUE, s |-> <<>>]
Str(s) == [none |-> FALSE, s |-> s]
\* Python truthiness of an optional string: `not v`
Falsy(v) == v.none \/ v.s = <<>>

(* --------------------------- string helpers --------------------------- *)
Min(a, b) == IF a < b THEN a ELSE b
Range(f) == {f[i] : i \in DOMAIN f}
Repeat(c, n) == [i \in 1..n |-> c]

\* all sequences over alphabet A of length at most n
SeqsUpTo(A, n) == UNION {[1..k -> A] : k \in 0..n}

\* s[:n]
Prefix(s, n) == SubSeq(s, 1, Min(n, Len(s)))

RECURSIVE LStrip(_, _)
LStrip(s, cs) ==
    IF s # <<>> /\ Head(s) \in cs THEN LStrip(Tail(s), cs) ELSE s

RECURSIVE RStrip(_, _)
RStrip(s, cs) ==
    IF s # <<>> /\ s[Len(s)] \in cs THEN RStrip(SubSeq(s, 1, Len(s) - 1), cs) ELSE s

\* str.strip(chars)
StripChars(s, cs) == RStrip(LStrip(s, cs), cs)

\* the characters str.strip() with no argument removes
Whitespace == {" ", "NL"}

\* str.replace(old, new) for one-character old and new
Replace(s, old, new) == [i \in 1..Len(s) |-> IF s[i] = old THEN new ELSE s[i]]

\* '\n'.join(pages)
RECURSIVE Join(_)
Join(pages) ==
    IF pages = <<>> THEN <<>>
    ELSE IF Len(pages) = 1 THEN pages[1]
    ELSE pages[1] \o <<"NL">> \o Join(Tail(pages))

(* ------------------------- Filename Sanitizer ------------------------- *)
\* characters pathvalidate removes from a file name (of the model's alphabet)
InvalidFilenameChars == {"/", "NL"}

\* pathvalidate.sanitize_filename: drops the characters no file name may hold
sanitize_filename(s) == SelectSeq(s, LAMBDA c : c \notin InvalidFilenameChars)

Untitled == <<"U", "n", "t", "i", "t", "l", "e", "d">>

\* mutant: the empty result is returned as it is (no placeholder)
convert_topic_to_filename_NoPlaceholder(topic) ==
    IF Falsy(topic) THEN None
    ELSE Str(Prefix(StripChars(Replace(sanitize_filename(topic.s), " ", "_"),
                               {" ", "_", "-"}),
                    MAX_FILENAME_LENGTH))

convert_topic_to_filename(topic) ==
    IF Falsy(topic) THEN None
    ELSE LET s1 == sanitize_filename(topic.s)
             s2 == Replace(s1, " ", "_")
             s3 == StripChars(s2, {" ", "_", "-"})
             s4 == Prefix(s3, MAX_FILENAME_LENGTH)
         IN  IF s4 = <<>> THEN Str(Untitled) ELSE Str(s4)


(* ---------------------- Text Extractor (OCR) -------------------------- *)
\* One PDF page as the extractor sees it:
\*   raster = "ok"          load_page, get_pixmap and pix.save succeed
\*   raster = "render_fail" load_page or get_pixmap raises (no image file yet)
\*   raster = "save_fail"   pix.save raises (the image file already exists)
\*   ocr    = "ok" / "fail" Image.open + image_to_string return text / raise
PageTexts == {<<"a">>, <<" ", "b", "NL">>, <<>>}
PageKinds ==
    {[raster |-> "ok", ocr |-> "ok", text |-> t] : t \in PageTexts}
    \cup {[raster |-> "ok", ocr |-> "fail", text |-> <<>>],
          [raster |-> "render_fail", ocr |-> "fail", text |-> <<>>],
          [raster |-> "save_fail", ocr |-> "fail", text |-> <<>>]}

\* the content of a downloaded file: whether fitz.open accepts it, and its pages
UnreadablePdf == [opens |-> FALSE, pages |-> <<>>]
Pdfs == {UnreadablePdf}
        \cup {[opens |-> TRUE, pages |-> ps] : ps \in SeqsUpTo(PageKinds, MaxPages)}

\* locals of perform_ocr_on_pdf: pages, image_temp_files; files = the image
\* files (by page number) that exist, created = NamedTemporaryFile calls made,
\* raised = an exception reached the outer handler
OcrStart == [pages |-> <<>>, image_temp_files |-> <<>>, files |-> {},
             created |-> 0, raised |-> FALSE]

\* mutant: the image is registered for cleanup only once OCR succeeded
OcrPage_RegisterAfterOcr(st, page, page_num) ==
    IF page.raster = "render_fail" THEN [st EXCEPT !.raised = TRUE]
    ELSE IF page.raster = "save_fail"
         THEN [st EXCEPT !.raised = TRUE, !.created = @ + 1,
                         !.files = @ \cup {page_num}]
    ELSE [st EXCEPT !.created = @ + 1,
                    !.files = @ \cup {page_num},
                    !.image_temp_files =
                        IF page.ocr = "ok" THEN Append(@, page_num) ELSE @,
                    !.pages = IF page.ocr = "ok" THEN Append(@, page.text) ELSE @]

\* the body of the page loop
OcrPage(st, page, page_num) ==
    IF page.raster = "render_fail" THEN [st EXCEPT !.raised = TRUE]
    ELSE IF page.raster = "save_fail"
         THEN [st EXCEPT !.raised = TRUE, !.created = @ + 1,
                         !.files = @ \cup {page_num}]
    ELSE [st EXCEPT !.created = @ + 1,
                    !.files = @ \cup {page_num},
                    !.image_temp_files = Append(@, page_num),
                    !.pages = IF page.ocr = "ok" THEN Append(@, page.text) ELSE @]

\* for page_num in range(doc.page_count), left by the first exception
RECURSIVE OcrLoop(_, _, _)
OcrLoop(pdf, st, page_num) ==
    IF page_num > Len(pdf.pages) \/ st.raised THEN st
    ELSE OcrLoop(pdf, OcrPage(st, pdf.pages[page_num], page_num), page_num + 1)

\* result: the returned text or None; created: image files created;
\* left: the image files that still exist when the function returns.
\* The finally clause removes every path of image_temp_files; os.remove of a
\* file the process created itself is taken to succeed.
perform_ocr_on_pdf(pdf) ==
    LET st == IF pdf.opens THEN OcrLoop(pdf, OcrStart, 1)
              ELSE [OcrStart EXCEPT !.raised = TRUE]
    IN  [result  |-> IF st.raised THEN None
                     ELSE Str(StripChars(Join(st.pages), Whitespace)),
         created |-> st.created,
         left    |-> st.files \ Range(st.image_temp_files)]

(* -------------------------- Topic Inferencer -------------------------- *)
\* the fixed text of LLM_PROMPT_TEMPLATE before and after {text}
PromptHead == <<"TEXT:", "NL">>
PromptTail == <<"NL", "END OF TEXT">>
FormatPrompt(text) == PromptHead \o text \o PromptTail

\* what ollama.generate does: raises, answers without a 'response' field,
\* or answers with a response text
LLMOutcomes(R) ==
    {[kind |-> "error", response |-> <<>>],
     [kind |-> "malformed", response |-> <<>>]}
    \cup {[kind |-> "ok", response |-> r] : r \in R}

\* mutant: the cut keeps one character less than the budget
TruncateForLLM_OffByOne(text) ==
    IF Len(text) > MAX_OCR_TEXT_FOR_LLM
    THEN Prefix(text, MAX_OCR_TEXT_FOR_LLM - 1) ELSE text

TruncateForLLM(text) ==
    IF Len(text) > MAX_OCR_TEXT_FOR_LLM
    THEN Prefix(text, MAX_OCR_TEXT_FOR_LLM) ELSE text

\* mutant: no early return for an empty text
get_topic_from_llm_NoGuard(text, outcome) ==
    [result  |-> IF outcome.kind = "ok"
                 THEN Str(StripChars(outcome.response, Whitespace)) ELSE None,
     prompts |-> <<FormatPrompt(TruncateForLLM(text.s))>>]

\* result: the topic or None; prompts: the prompts sent to ollama.generate
get_topic_from_llm(text, outcome) ==
    IF Falsy(text) THEN [result |-> None, prompts |-> <<>>]
    ELSE [result  |-> IF outcome.kind = "ok"
                      THEN Str(StripChars(outcome.response, Whitespace))
                      ELSE None,
          prompts |-> <<FormatPrompt(TruncateForLLM(text.s))>>]

(* ------------------------------ os.path ------------------------------- *)
LastIndexOf(s, c) ==
    LET I == {i \in 1..Len(s) : s[i] = c}
    IN  IF I = {} THEN 0 ELSE CHOOSE i \in I : \A j \in I : j <= i

\* os.path.splitext(p)[1]
splitext_ext(p) ==
    LET dot == LastIndexOf(p, ".")
        sep == LastIndexOf(p, "/")
    IN  IF dot > sep /\ \E i \in (sep + 1)..(dot - 1) : p[i] # "."
        THEN SubSeq(p, dot, Len(p)) ELSE <<>>


(* ------------------------------- state -------------------------------- *)
VARIABLES
    \* main(): the Document Processor
    items,          \* the listing: a sequence of [id, name]
    idx,            \* position of the loop over items
    pc,             \* the step main() is about to run
    temp_pdf_path,  \* NoPath (None) or the temporary PDF's path
    raised,         \* an exception is on its way to the handler of line 223
    fs,             \* the temporary files that exist
    pdf,            \* the content of the downloaded temporary PDF
    ocr_text, topic, new_name_base, new_name,
    drive_name,     \* the name each file has on Drive
    steps,          \* per document, the steps that ran, in order
    llm_calls,      \* per document, calls of ollama.generate
    rename_calls,   \* per document, files().update requests
    img_created,    \* image files created by the last extraction
    log,            \* per document, how its processing ended
    \* convert_topic_to_filename applied once and twice to a topic
    san_topic, san_out, san_out2, san_pc,
    \* get_topic_from_llm applied to a text
    llm_text, llm_out, llm_pc

mainVars == <<items, idx, pc, temp_pdf_path, raised, fs, pdf, ocr_text, topic,
              new_name_base, new_name, drive_name, steps, llm_calls,
              rename_calls, img_created, log>>
sanVars == <<san_topic, san_out, san_out2, san_pc>>
llmVars == <<llm_text, llm_out, llm_pc>>
vars == <<mainVars, sanVars, llmVars>>

NoPath == <<>>
PdfFile(d) == <<"pdf", d>>
PngFile(d, p) == <<"png", d, p>>

\* names the listing may return
OriginalNames == {<<"a", ".", "p">>, <<"b", "_", "b">>}
\* response texts the language model may give
Responses == {<<"a">>, <<" ", "b", " ", "b", "NL">>, <<" ">>, <<"/">>}

Docs == 1..Len(items)

SanIdle ==
    /\ san_topic = <<>>
    /\ san_out = None
    /\ san_out2 = None
    /\ san_pc = "idle"

LLMIdle ==
    /\ llm_text = <<>>
    /\ llm_out = [result |-> None, prompts |-> <<>>]
    /\ llm_pc = "idle"

MainIdle ==
    /\ items = <<>>
    /\ idx = 1
    /\ pc = "done"
    /\ temp_pdf_path = NoPath
    /\ raised = FALSE
    /\ fs = {}
    /\ pdf = UnreadablePdf
    /\ ocr_text = None
    /\ topic = None
    /\ new_name_base = None
    /\ new_name = <<>>
    /\ drive_name = <<>>
    /\ steps = <<>>
    /\ llm_calls = <<>>
    /\ rename_calls = <<>>
    /\ img_created = 0
    /\ log = <<>>

(* ------------------------ main(): the document loop ------------------- *)
\* the state when the loop over items is reached (or main returned at the
\* empty listing)
Init ==
    /\ \E n \in 0..NumDocs : \E names \in [1..n -> OriginalNames] :
          items = [i \in 1..n |-> [id |-> i, name |-> names[i]]]
    /\ idx = 1
    /\ pc = IF items = <<>> THEN "done" ELSE "download"
    /\ temp_pdf_path = NoPath
    /\ raised = FALSE
    /\ fs = {}
    /\ pdf = UnreadablePdf
    /\ ocr_text = None
    /\ topic = None
    /\ new_name_base = None
    /\ new_name = <<>>
    /\ drive_name = [i \in Docs |-> items[i].name]
    /\ steps = [i \in Docs |-> <<>>]
    /\ llm_calls = [i \in Docs |-> 0]
    /\ rename_calls = [i \in Docs |-> 0]
    /\ img_created = 0
    /\ log = [i \in Docs |-> "pending"]
    /\ SanIdle
    /\ LLMIdle

original_name == items[idx].name

\* the step ran; the document ends here with outcome `how`
EndDoc(step, how, exc) ==
    /\ steps' = [steps EXCEPT ![idx] = Append(@, step)]
    /\ log' = [log EXCEPT ![idx] = how]
    /\ raised' = exc
    /\ pc' = "cleanup"

\* the step ran and the next one follows
Proceed(step, next) ==
    /\ steps' = [steps EXCEPT ![idx] = Append(@, step)]
    /\ pc' = next
    /\ UNCHANGED <<log, raised>>

\* get_media, NamedTemporaryFile, the next_chunk loop
Download ==
    /\ pc = "download"
    /\ \E how \in {"ok", "request_fail", "chunk_fail"} : \E content \in Pdfs :
        IF how = "ok"
        THEN /\ fs' = fs \cup {PdfFile(idx)}
             /\ temp_pdf_path' = PdfFile(idx)
             /\ pdf' = content
             /\ Proceed("download", "extract")
        ELSE /\ content = UnreadablePdf
             /\ fs' = IF how = "chunk_fail" THEN fs \cup {PdfFile(idx)} ELSE fs
             /\ EndDoc("download", "download_failed", TRUE)
             /\ UNCHANGED <<temp_pdf_path, pdf>>
    /\ UNCHANGED <<sanVars, llmVars, items, idx, ocr_text, topic, new_name_base, new_name,
                   drive_name, llm_calls, rename_calls, img_created>>

\* mutant: an empty extraction result does not end the document
Extract_NoCheck ==
    /\ pc = "extract"
    /\ LET r == perform_ocr_on_pdf(pdf)
       IN  /\ ocr_text' = r.result
           /\ img_created' = r.created
           /\ fs' = fs \cup {PngFile(idx, p) : p \in r.left}
           /\ Proceed("extract", "infer")
    /\ UNCHANGED <<sanVars, llmVars, items, idx, temp_pdf_path, pdf, topic, new_name_base,
                   new_name, drive_name, llm_calls, rename_calls>>

\* ocr_text = perform_ocr_on_pdf(temp_pdf_path) and its check
Extract ==
    /\ pc = "extract"
    /\ LET r == perform_ocr_on_pdf(pdf)
       IN  /\ ocr_text' = r.result
           /\ img_created' = r.created
           /\ fs' = fs \cup {PngFile(idx, p) : p \in r.left}
           /\ IF Falsy(r.result)
              THEN EndDoc("extract", "no_text", FALSE)
              ELSE Proceed("extract", "infer")
    /\ UNCHANGED <<sanVars, llmVars, items, idx, temp_pdf_path, pdf, topic, new_name_base,
                   new_name, drive_name, llm_calls, rename_calls>>

\* topic = get_topic_from_llm(ocr_text) and its check
Infer ==
    /\ pc = "infer"
    /\ \E o \in LLMOutcomes(Responses) :
        LET r == get_topic_from_llm(ocr_text, o)
        IN  /\ topic' = r.result
            /\ llm_calls' = [llm_calls EXCEPT ![idx] = @ + Len(r.prompts)]
            /\ IF Falsy(r.result)
               THEN EndDoc("infer", "no_topic", FALSE)
               ELSE Proceed("infer", "sanitize")
    /\ UNCHANGED <<sanVars, llmVars, items, idx, temp_pdf_path, fs, pdf, ocr_text, new_name_base,
                   new_name, drive_name, rename_calls, img_created>>

\* new_name_base = convert_topic_to_filename(topic), its check, and new_name;
\* fault: the library call raises
Sanitize ==
    /\ pc = "sanitize"
    /\ \E fault \in BOOLEAN :
        LET base == convert_topic_to_filename(topic)
        IN  IF fault
            THEN /\ EndDoc("sanitize", "exception", TRUE)
                 /\ UNCHANGED <<new_name_base, new_name>>
            ELSE /\ new_name_base' = base
                 /\ IF Falsy(base)
                    THEN /\ EndDoc("sanitize", "empty_name", FALSE)
                         /\ UNCHANGED new_name
                    ELSE /\ new_name' = base.s \o splitext_ext(original_name)
                         /\ Proceed("sanitize", "rename")
    /\ UNCHANGED <<sanVars, llmVars, items, idx, temp_pdf_path, fs, pdf, ocr_text, topic,
                   drive_name, llm_calls, rename_calls, img_created>>

\* mutant: the update request is sent without comparing the names
Rename_Always ==
    /\ pc = "rename"
    /\ \E ok \in BOOLEAN :
        /\ rename_calls' = [rename_calls EXCEPT ![idx] = @ + 1]
        /\ drive_name' = IF ok THEN [drive_name EXCEPT ![idx] = new_name]
                         ELSE drive_name
        /\ EndDoc("rename", IF ok THEN "renamed" ELSE "rename_failed", FALSE)
    /\ UNCHANGED <<sanVars, llmVars, items, idx, temp_pdf_path, fs, pdf, ocr_text, topic,
                   new_name_base, new_name, llm_calls, img_created>>

\* the comparison with the original name and the files().update request
Rename ==
    /\ pc = "rename"
    /\ \E ok \in BOOLEAN :
        IF new_name = original_name
        THEN /\ ok
             /\ EndDoc("rename", "unchanged", FALSE)
             /\ UNCHANGED <<rename_calls, drive_name>>
        ELSE /\ rename_calls' = [rename_calls EXCEPT ![idx] = @ + 1]
             /\ drive_name' = IF ok THEN [drive_name EXCEPT ![idx] = new_name]
                              ELSE drive_name
             /\ EndDoc("rename", IF ok THEN "renamed" ELSE "rename_failed", FALSE)
    /\ UNCHANGED <<sanVars, llmVars, items, idx, temp_pdf_path, fs, pdf, ocr_text, topic,
                   new_name_base, new_name, llm_calls, img_created>>

\* mutant: no handler at the document boundary, the exception leaves the loop
Cleanup_Propagates ==
    /\ pc = "cleanup"
    /\ fs' = IF temp_pdf_path # NoPath /\ temp_pdf_path \in fs
             THEN fs \ {temp_pdf_path} ELSE fs
    /\ steps' = [steps EXCEPT ![idx] = Append(@, "cleanup")]
    /\ raised' = FALSE
    /\ idx' = idx + 1
    /\ pc' = IF raised \/ idx + 1 > Len(items) THEN "done" ELSE "download"
    /\ temp_pdf_path' = NoPath
    /\ pdf' = UnreadablePdf
    /\ ocr_text' = None
    /\ topic' = None
    /\ new_name_base' = None
    /\ new_name' = <<>>
    /\ img_created' = 0
    /\ UNCHANGED <<sanVars, llmVars, items, drive_name, llm_calls, rename_calls, log>>

\* the except and finally clauses of the document, then the next item (whose
\* locals are all assigned before they are read, so they start afresh);
\* os.remove of the temporary PDF is taken to succeed
Cleanup ==
    /\ pc = "cleanup"
    /\ fs' = IF temp_pdf_path # NoPath /\ temp_pdf_path \in fs
             THEN fs \ {temp_pdf_path} ELSE fs
    /\ steps' = [steps EXCEPT ![idx] = Append(@, "cleanup")]
    /\ raised' = FALSE
    /\ idx' = idx + 1
    /\ pc' = IF idx + 1 > Len(items) THEN "done" ELSE "download"
    /\ temp_pdf_path' = NoPath
    /\ pdf' = UnreadablePdf
    /\ ocr_text' = None
    /\ topic' = None
    /\ new_name_base' = None
    /\ new_name' = <<>>
    /\ img_created' = 0
    /\ UNCHANGED <<sanVars, llmVars, items, drive_name, llm_calls, rename_calls, log>>

Next ==
    \/ Download
    \/ Extract
    \/ Infer
    \/ Sanitize
    \/ Rename
    \/ Cleanup

Spec == Init /\ [][Next]_vars

(* ------------- convert_topic_to_filename as a pure function ----------- *)
SanAlphabet == {"a", " ", "_", "-", "/"}
\* topics: a run of "a" (none, or up to the length cap) and a free tail
SanTopics ==
    {Repeat("a", k) \o t :
        k \in {0, MAX_FILENAME_LENGTH - 1, MAX_FILENAME_LENGTH},
        t \in SeqsUpTo(SanAlphabet, MaxTail)}

InitSan ==
    /\ MainIdle
    /\ LLMIdle
    /\ san_topic \in SanTopics
    /\ san_out = None
    /\ san_out2 = None
    /\ san_pc = "ready"

\* convert_topic_to_filename(topic)
SanApply ==
    /\ san_pc = "ready"
    /\ san_out' = convert_topic_to_filename(Str(san_topic))
    /\ san_pc' = "once"
    /\ UNCHANGED <<mainVars, llmVars, san_topic, san_out2>>

\* convert_topic_to_filename applied to its own result
SanApplyAgain ==
    /\ san_pc = "once"
    /\ san_out2' = convert_topic_to_filename(san_out)
    /\ san_pc' = "twice"
    /\ UNCHANGED <<mainVars, llmVars, san_topic, san_out>>

NextSan ==
    \/ SanApply
    \/ SanApplyAgain

SpecSan == InitSan /\ [][NextSan]_vars

(* ----------------- get_topic_from_llm as a pure function -------------- *)
LLMAlphabet == {"a", "b", " "}
\* texts: a run of "a" (none, or about the budget) and a free tail
LLMTexts ==
    {Repeat("a", k) \o t :
        k \in {0} \cup ((MAX_OCR_TEXT_FOR_LLM - 1)..(MAX_OCR_TEXT_FOR_LLM + 1)),
        t \in SeqsUpTo(LLMAlphabet, MaxTail)}

InitLLM ==
    /\ MainIdle
    /\ SanIdle
    /\ llm_text \in LLMTexts
    /\ llm_out = [result |-> None, prompts |-> <<>>]
    /\ llm_pc = "ready"

\* get_topic_from_llm(text)
LLMCall ==
    /\ llm_pc = "ready"
    /\ \E o \in LLMOutcomes(Responses) :
          llm_out' = get_topic_from_llm(Str(llm_text), o)
    /\ llm_pc' = "returned"
    /\ UNCHANGED <<mainVars, sanVars, llm_text>>

NextLLM == LLMCall

SpecLLM == InitLLM /\ [][NextLLM]_vars


(* ======================= properties of the claims ===================== *)
StepsOf(d) == Range(steps[d])
Last(s) == s[Len(s)]
\* the document's processing, its cleanup included, has ended
Ended(d) == steps[d] # <<>> /\ Last(steps[d]) = "cleanup"
\* the current document's extraction has returned
Extracted == pc \in {"infer", "sanitize", "rename", "cleanup"}
             /\ "extract" \in StepsOf(idx)
\* the text of the pages that were rasterized and recognized, in page order
RECURSIVE RecognizedTexts(_)
RecognizedTexts(pages) ==
    IF pages = <<>> THEN <<>>
    ELSE (IF Head(pages).raster = "ok" /\ Head(pages).ocr = "ok"
          THEN <<Head(pages).text>> ELSE <<>>) \o RecognizedTexts(Tail(pages))
AllRasterized(p) == p.opens /\ \A i \in 1..Len(p.pages) : p.pages[i].raster = "ok"
OcrFailures(p) == {i \in 1..Len(p.pages) : p.pages[i].ocr = "fail"}
NoImageLeft(d) == \A f \in fs : ~(f[1] = "png" /\ f[2] = d)

\* C1: when the processing of a document has ended, whatever step failed or
\* succeeded, the temporary PDF created for it no longer exists.
C1_NoTempPdfOutlivesDocument ==
    \A d \in Docs : d < idx => PdfFile(d) \notin fs

\* C2: whatever happens while a document is processed, the run goes on: after
\* the cleanup of a document that is not the last, the next step is the
\* download of the document after it; the run ends only from the cleanup of
\* the last document, and then every document of the listing was attempted.
C2_FailureNeverEndsRun ==
    /\ [](pc = "done" => \A d \in Docs : Ended(d))
    /\ [][(pc = "cleanup" /\ idx < Len(items))
              => (pc' = "download" /\ idx' = idx + 1)]_vars
    /\ [][pc' = "done" => (pc = "cleanup" /\ idx = Len(items))]_vars

C2_Witness ==
    /\ Len(items) >= 2
    /\ log[1] = "rename_failed"
    /\ steps[2] # <<>>

\* C3: when every page rasterizes, the extractor returns the trimmed
\* newline-join of the text of the pages whose OCR succeeded, in page order;
\* it creates one image file per page and none of them is left.
C3_OcrPartialResult ==
    (Extracted /\ AllRasterized(pdf)) =>
        /\ ocr_text = Str(StripChars(Join(RecognizedTexts(pdf.pages)), Whitespace))
        /\ img_created = Len(pdf.pages)
        /\ NoImageLeft(idx)

C3_Witness ==
    /\ Extracted
    /\ AllRasterized(pdf)
    /\ Len(pdf.pages) = 2
    /\ OcrFailures(pdf) = {1}
    /\ ocr_text = Str(<<"a">>)
    /\ img_created = 2

\* C4: a page that fails to rasterize is skipped and nothing more: the
\* extractor does not return None, the other pages contribute their text in
\* order, and no image file created by the call is left.
C4_RasterFailureIsPageFatal ==
    (Extracted /\ pdf.opens /\ ~AllRasterized(pdf)) =>
        /\ ocr_text = Str(StripChars(Join(RecognizedTexts(pdf.pages)), Whitespace))
        /\ NoImageLeft(idx)

\* every character of the topic is removed by sanitizing or edge trimming
SanitizesToNothing(t) ==
    \A i \in 1..Len(t) : t[i] \in InvalidFilenameChars \cup {" ", "_", "-"}

NonEmptyBoundedName(out, t) ==
    /\ ~out.none
    /\ out.s # <<>>
    /\ Len(out.s) <= MAX_FILENAME_LENGTH
    /\ (out.s = Untitled) <=> SanitizesToNothing(t)

C6_Idempotent ==
    san_pc = "twice" => san_out2 = san_out

\* C7: a document whose extracted text is empty or missing causes no call of
\* the inference service, no sanitize step and no rename; and the Topic
\* Inferencer, given such a text, answers None without calling the service.
C7_EmptyTextSkipsInference ==
    /\ \A d \in Docs :
          log[d] = "no_text" =>
              /\ llm_calls[d] = 0
              /\ rename_calls[d] = 0
              /\ StepsOf(d) \cap {"sanitize", "rename"} = {}
    /\ \A o \in LLMOutcomes(Responses) : \A t \in {None, Str(<<>>)} :
          get_topic_from_llm(t, o) = [result |-> None, prompts |-> <<>>]

C7_Witness ==
    /\ pc = "done"
    /\ Len(items) >= 1
    /\ log[1] = "no_text"
    /\ llm_calls[1] = 0
    /\ drive_name[1] = items[1].name

\* C8: at most one rename request per document, and none when the candidate
\* name (sanitized topic plus the original extension) is the original name.
C8_RenameOnlyWhenNameDiffers ==
    /\ \A d \in Docs :
          /\ rename_calls[d] <= 1
          /\ "rename" \notin StepsOf(d) => rename_calls[d] = 0
    /\ (pc = "cleanup" /\ "rename" \in StepsOf(idx)) =>
          /\ new_name = new_name_base.s \o splitext_ext(original_name)
          /\ rename_calls[idx] = IF new_name = original_name THEN 0 ELSE 1

C8_Witness ==
    /\ pc = "cleanup"
    /\ "rename" \in StepsOf(idx)
    /\ new_name = original_name
    /\ rename_calls[idx] = 0

\* the text between the fixed head and tail of a prompt
EmbeddedText(prompt) ==
    SubSeq(prompt, Len(PromptHead) + 1, Len(prompt) - Len(PromptTail))

\* C9: for a non-empty text the inference service is called exactly once, and
\* the prompt embeds the first MAX_OCR_TEXT_FOR_LLM characters of a longer
\* text, or the whole of a text within the budget.
C9_TruncatedPromptSingleCall ==
    (llm_pc = "returned" /\ llm_text # <<>>) =>
        /\ Len(llm_out.prompts) = 1
        /\ EmbeddedText(llm_out.prompts[1]) =
              IF Len(llm_text) > MAX_OCR_TEXT_FOR_LLM
              THEN [i \in 1..MAX_OCR_TEXT_FOR_LLM |-> llm_text[i]]
              ELSE llm_text

C9_Witness ==
    /\ llm_pc = "returned"
    /\ Len(llm_text) > MAX_OCR_TEXT_FOR_LLM
    /\ llm_text[MAX_OCR_TEXT_FOR_LLM + 1] = "b"
    /\ Len(llm_out.prompts) = 1
    /\ llm_out.result = None

Pipeline == <<"download", "extract", "infer", "sanitize", "rename">>
WithoutCleanup(s) ==
    IF s # <<>> /\ Last(s) = "cleanup" THEN SubSeq(s, 1, Len(s) - 1) ELSE s
IsPrefix(s, t) == Len(s) <= Len(t) /\ \A i \in 1..Len(s) : s[i] = t[i]
\* how far a document that ended as `how` may have gone
StepsAllowed(how) ==
    CASE how = "download_failed" -> 1
      [] how = "no_text" -> 2
      [] how = "no_topic" -> 3
      [] how \in {"exception", "empty_name"} -> 4
      [] OTHER -> 5

\* C10: documents are processed one at a time in listing order; the steps of
\* a document run in the order download, extract, infer, sanitize, rename,
\* each only after the one before it gave a non-empty result; and no step of
\* a document runs before the document before it has ended, cleanup included.
C10_SequentialOrderedSteps ==
    /\ \A d \in Docs :
          /\ IsPrefix(WithoutCleanup(steps[d]), Pipeline)
          /\ Len(WithoutCleanup(steps[d])) <= StepsAllowed(log[d])
          /\ d < idx => Ended(d)
          /\ d = idx => ~Ended(d)
          /\ d > idx => steps[d] = <<>>
    /\ idx \in Docs =>
          /\ "extract" \in StepsOf(idx) =>
                temp_pdf_path = PdfFile(idx) /\ PdfFile(idx) \in fs
          /\ "infer" \in StepsOf(idx) => ~Falsy(ocr_text)
          /\ "sanitize" \in StepsOf(idx) => ~Falsy(topic)
          /\ "rename" \in StepsOf(idx) => ~Falsy(new_name_base)

C10_Witness ==
    /\ Len(items) >= 2
    /\ steps[1] = Pipeline \o <<"cleanup">>
    /\ idx = 2
    /\ "infer" \in StepsOf(2)

====
